---- MODULE Spec2Model ----
(***************************************************************************)
(* Model of the data-preparation script data_processing.py: the two        *)
(* loaders, the grid builder get_blank_df and the aggregator               *)
(* get_combined_df, run in the order of the script's __main__ block.       *)
(*                                                                         *)
(* A DataFrame is a sequence of records (its rows, in row order).  A       *)
(* pandas Period of frequency 'M' is the pair <<year, month>>.  Event      *)
(* rates are floating-point quotients in the code; the model keeps them    *)
(* as exact fractions [num, den] in lowest terms, with den = 0 for the     *)
(* two non-finite results of a division by zero (inf and NaN).             *)
(* groupby(...).sum() is modelled with the behaviour the script relies     *)
(* on: non-numeric columns (Location, Event_Type, datetime) are left out   *)
(* of the sums, and NaN values are skipped.                                *)
(***************************************************************************)
EXTENDS Integers, Sequences, FiniteSets, TLC

\* ------------------------------------------------------------------ bounds
\* Largest number of rows of the raw events file.
MaxEvents == 2

\* Largest number of rows over the raw movement files.
MaxMovRows == 2

\* --------------------------------------------------------- program constants
TargetYear == 2022

MonthsPerYear == 12

PerThousand == 1000

MonthName ==
  << "January", "February", "March", "April", "May", "June", "July",
     "August", "September", "October", "November", "December" >>

AllCities == "All Cities"

AllTypes == "All Types"

\* The value pandas gives a missing count after the left merge, before fillna.
NaN == -1

\* The value of the datetime column in rows that come from a groupby.
NaT == [year |-> 0, month |-> 0]

\* ------------------------------------------------------- enumerated inputs
\* The event types the raw events file may hold.
TypeNames == << "Facility Issue", "Loss of Separation" >>

\* The cities whose movement files may hold rows, in the order the script
\* concatenates them; the Green City and Yellow City files hold none.
CityNames == << "Blue City", "Red City" >>

\* Event dates as written in the file (format %d-%m-%y): <<yy, mm>>.
EventDates == << <<22, 3>>, <<22, 5>>, <<21, 5>> >>

\* Movement rows as written in a city file (format %d/%m/%Y ... and a
\* count): <<yyyy, mm, n_movements>>.
MovementRows == << <<2022, 5, 0>>, <<2022, 5, 1000>>, <<2022, 5, 2000>>, <<2021, 5, 1000>> >>

\* An event date that does not match the format: month 13.
MalformedDate == << 22, 13 >>

\* The k-th possible raw event row; rows are numbered date-major, and the
\* last one carries the malformed date.
EventOption(k) ==
  LET nT == Len(TypeNames)
      nC == Len(CityNames)
      d  == ((k - 1) \div (nT * nC)) + 1
      t  == (((k - 1) \div nC) % nT) + 1
      c  == ((k - 1) % nC) + 1
  IN  IF k > Len(EventDates) * nT * nC
        THEN [ Event_Date |-> MalformedDate,
               Event_Type |-> TypeNames[1],
               Location   |-> CityNames[1] ]
        ELSE [ Event_Date |-> EventDates[d],
               Event_Type |-> TypeNames[t],
               Location   |-> CityNames[c] ]

NumEventOptions == Len(EventDates) * Len(TypeNames) * Len(CityNames) + 1

\* The k-th possible raw movement row; rows are numbered city-major, the
\* order in which the script concatenates the per-city files.
MovementOption(k) ==
  LET nR == Len(MovementRows)
      c  == ((k - 1) \div nR) + 1
      r  == ((k - 1) % nR) + 1
  IN  [ Location    |-> CityNames[c],
        datetime    |-> << MovementRows[r][1], MovementRows[r][2] >>,
        n_movements |-> MovementRows[r][3] ]

NumMovementOptions == Len(CityNames) * Len(MovementRows)

\* Non-decreasing index sequences of length at most max over 1..n.
Listings(n, max) ==
  UNION { { s \in [1..k -> 1..n] : \A i \in 1..(k - 1) : s[i] <= s[i + 1] }
          : k \in 0..max }

\* The raw events files: the rows in date order, Event_ID the row number.
RawEventFiles ==
  { [ i \in 1..Len(s) |->
        [ Event_ID   |-> i,
          Event_Date |-> EventOption(s[i]).Event_Date,
          Event_Type |-> EventOption(s[i]).Event_Type,
          Location   |-> EventOption(s[i]).Location ] ] :
      s \in Listings(NumEventOptions, MaxEvents) }

\* Movement files as the data set ships them: one row per month of the
\* target year for each of the first nc cities (1000 a month for the first
\* city, 2000 for the second).
FullYearFiles(nc) ==
  [ j \in 1..(MonthsPerYear * nc) |->
      [ Location    |-> CityNames[((j - 1) \div MonthsPerYear) + 1],
        datetime    |-> << TargetYear, ((j - 1) % MonthsPerYear) + 1 >>,
        n_movements |-> PerThousand * (((j - 1) \div MonthsPerYear) + 1) ] ]

RawMovementFiles ==
  { [i \in 1..Len(s) |-> MovementOption(s[i])] :
      s \in Listings(NumMovementOptions, MaxMovRows) }
  \cup { FullYearFiles(nc) : nc \in 1..Len(CityNames) }

\* ------------------------------------------------------------ sequence helpers
\* The concatenation of the sequences ss[1], ss[2], ..., by halves.
RECURSIVE Concat(_)
Concat(ss) ==
  IF ss = << >> THEN << >>
  ELSE IF Len(ss) = 1 THEN ss[1]
  ELSE LET h == Len(ss) \div 2
       IN  Concat(SubSeq(ss, 1, h)) \o Concat(SubSeq(ss, h + 1, Len(ss)))

\* Series.unique(): the distinct values in order of first appearance.
Unique(s) ==
  LET First(i) == \A j \in 1..(i - 1) : s[j] # s[i]
      firsts   == SelectSeq([i \in 1..Len(s) |-> i], First)
  IN  [k \in 1..Len(firsts) |-> s[firsts[k]]]

RECURSIVE SumInts(_)
SumInts(s) == IF s = << >> THEN 0 ELSE Head(s) + SumInts(Tail(s))

RECURSIVE MaxInts(_)
MaxInts(s) ==
  IF Len(s) = 1 THEN s[1]
  ELSE LET m == MaxInts(Tail(s)) IN IF Head(s) >= m THEN Head(s) ELSE m

Range(s) == { s[i] : i \in 1..Len(s) }


\* ------------------------------------------------------------ rate arithmetic
RECURSIVE GCD(_, _)
GCD(a, b) == IF b = 0 THEN a ELSE GCD(b, a % b)

\* The finite rate n/d (d > 0) in lowest terms.
Frac(n, d) == LET g == GCD(n, d) IN [num |-> n \div g, den |-> d \div g]

Inf == [num |-> 1, den |-> 0]

NaNRate == [num |-> 0, den |-> 0]

IsFinite(r) == r.den > 0

\* The quotient without the division of n_movements by 1000.
EventRatePerMovement(n_events, n_movements) ==
  IF n_movements = 0
    THEN IF n_events = 0 THEN NaNRate ELSE Inf
    ELSE Frac(n_events, n_movements)

\* n_events / (n_movements / 1000) on float columns: a zero divisor gives
\* inf (or NaN for 0/0), never an exception.
EventRate(n_events, n_movements) ==
  IF n_movements = 0
    THEN IF n_events = 0 THEN NaNRate ELSE Inf
    ELSE Frac(PerThousand * n_events, n_movements)

\* Float addition as groupby(...).sum() applies it: NaN is skipped.
RateAdd(a, b) ==
  IF a = NaNRate THEN b
  ELSE IF b = NaNRate THEN a
  ELSE IF a = Inf \/ b = Inf THEN Inf
  ELSE Frac(a.num * b.den + b.num * a.den, a.den * b.den)

RECURSIVE SumRates(_)
SumRates(s) == IF s = << >> THEN Frac(0, 1) ELSE RateAdd(Head(s), SumRates(Tail(s)))

\* ---------------------------------------------------------------- the loaders
\* strptime's %y: 00..68 are 2000..2068, 69..99 are 1969..1999.
ParseYear2(yy) == IF yy < 69 THEN 2000 + yy ELSE 1900 + yy

\* Series.dt.to_period('M')
to_period(date) == << date.year, date.month >>

\* get_movements_data: concatenate the city files, parse, keep the target
\* year, add the month period.  `files` is the concatenation of the tagged
\* per-city files.
get_movements_data(files, year) ==
  LET Parsed(r) ==
        LET dt == [year |-> r.datetime[1], month |-> r.datetime[2]]
        IN  IF dt.year = year
              THEN << [ datetime    |-> dt,
                        n_movements |-> r.n_movements,
                        Location    |-> r.Location,
                        month       |-> to_period(dt) ] >>
              ELSE << >>
  IN  Concat([i \in 1..Len(files) |-> Parsed(files[i])])

\* A date string strptime accepts under %d-%m-%y.
Parseable(date) == date[2] \in 1..MonthsPerYear

\* A loader that parses with errors='coerce': it never raises.
get_events_data_never_raises(file) == FALSE

\* Line 57: pd.to_datetime(..., format="%d-%m-%y") raises ValueError when a
\* date of the column does not match the format.
get_events_data_raises(file) ==
  \E i \in 1..Len(file) : ~Parseable(file[i].Event_Date)

\* get_events_data: parse Event_Date, keep the target year, add the month period.
get_events_data(file, year) ==
  LET Parsed(r) ==
        LET dt == [year |-> ParseYear2(r.Event_Date[1]), month |-> r.Event_Date[2]]
        IN  IF dt.year = year
              THEN << [ Event_ID   |-> r.Event_ID,
                        Event_Date |-> dt,
                        Event_Type |-> r.Event_Type,
                        Location   |-> r.Location,
                        month      |-> to_period(dt) ] >>
              ELSE << >>
  IN  Concat([i \in 1..Len(file) |-> Parsed(file[i])])

\* ------------------------------------------------------------ the grid builder
\* pd.concat of an empty list raises ValueError: get_blank_df raises when
\* either list is empty (line 79 for event_types, line 85 for locations).
get_blank_df_raises(event_types, locations) ==
  Len(event_types) = 0 \/ Len(locations) = 0

\* A grid whose event-type column cycles with the months instead of
\* repeating each type for a whole year.
get_blank_df_tiled(event_types, locations, year) ==
  LET nT == Len(event_types)
      n  == MonthsPerYear * nT
  IN  [ j \in 1..(n * Len(locations)) |->
          LET i == ((j - 1) % n) + 1
          IN  [ month      |-> << year, ((i - 1) % MonthsPerYear) + 1 >>,
                Event_Type |-> event_types[((i - 1) % nT) + 1],
                Location   |-> locations[((j - 1) \div n) + 1] ] ]

\* get_blank_df, for non-empty lists: row j of the result.
get_blank_df(event_types, locations, year) ==
  LET nT      == Len(event_types)
      \* months: the 12 periods of the year, concatenated once per event type
      nMonths == MonthsPerYear * nT
      months  == [i \in 1..nMonths |-> << year, ((i - 1) % MonthsPerYear) + 1 >>]
      \* events: each type repeated len(months)/len(event_types) times
      reps    == nMonths \div nT
      events  == [i \in 1..(nT * reps) |-> event_types[((i - 1) \div reps) + 1]]
      df      == [i \in 1..nMonths |-> [month |-> months[i], Event_Type |-> events[i]]]
      nDf     == Len(df)
  IN  [ j \in 1..(nDf * Len(locations)) |->
          [ month      |-> df[((j - 1) % nDf) + 1].month,
            Event_Type |-> df[((j - 1) % nDf) + 1].Event_Type,
            Location   |-> locations[((j - 1) \div nDf) + 1] ] ]

\* -------------------------------------------------------------- the aggregator
\* Counts of a groupby that leaves Location out of its keys.
EventCountsIgnoringLocation(events_df) ==
  LET Key(r) == << r.Event_Type, r.month, r.Location >>
      keys   == Unique([i \in 1..Len(events_df) |-> Key(events_df[i])])
  IN  [ k \in 1..Len(keys) |->
          LET InGroup(r) == r.Event_Type = keys[k][1] /\ r.month = keys[k][2]
          IN  [ Event_Type |-> keys[k][1],
                month      |-> keys[k][2],
                Location   |-> keys[k][3],
                n_events   |-> Len(SelectSeq(events_df, InGroup)) ] ]

\* Line 93: events_df.groupby([Event_Type, month, Location]).count(), first
\* column (Event_ID, never null) renamed to n_events.
EventCounts(events_df) ==
  LET Key(r) == << r.Event_Type, r.month, r.Location >>
      keys   == Unique([i \in 1..Len(events_df) |-> Key(events_df[i])])
  IN  [ k \in 1..Len(keys) |->
          LET InGroup(r) == Key(r) = keys[k]
          IN  [ Event_Type |-> keys[k][1],
                month      |-> keys[k][2],
                Location   |-> keys[k][3],
                n_events   |-> Len(SelectSeq(events_df, InGroup)) ] ]

\* A merge on month and Event_Type only: a count attaches to every location.
MergeCountsAnyLocation(blank_df, counts) ==
  LET Joined(b) ==
        LET Match(c) == /\ c.month = b.month
                        /\ c.Event_Type = b.Event_Type
            hits     == SelectSeq(counts, Match)
        IN  IF hits = << >>
              THEN << [ month |-> b.month, Event_Type |-> b.Event_Type,
                        Location |-> b.Location, n_events |-> NaN ] >>
              ELSE [ h \in 1..Len(hits) |->
                       [ month |-> b.month, Event_Type |-> b.Event_Type,
                         Location |-> b.Location, n_events |-> hits[h].n_events ] ]
      joined == Concat([i \in 1..Len(blank_df) |-> Joined(blank_df[i])])
  IN  [ i \in 1..Len(joined) |->
          [joined[i] EXCEPT !.n_events = IF @ = NaN THEN 0 ELSE @] ]

\* Lines 96-97: left merge of the grid with the counts, then fillna(0).
MergeCounts(blank_df, counts) ==
  LET Joined(b) ==
        LET Match(c) == /\ c.month = b.month
                        /\ c.Event_Type = b.Event_Type
                        /\ c.Location = b.Location
            hits     == SelectSeq(counts, Match)
        IN  IF hits = << >>
              THEN << [ month |-> b.month, Event_Type |-> b.Event_Type,
                        Location |-> b.Location, n_events |-> NaN ] >>
              ELSE [ h \in 1..Len(hits) |->
                       [ month |-> b.month, Event_Type |-> b.Event_Type,
                         Location |-> b.Location, n_events |-> hits[h].n_events ] ]
      joined == Concat([i \in 1..Len(blank_df) |-> Joined(blank_df[i])])
  IN  [ i \in 1..Len(joined) |->
          [joined[i] EXCEPT !.n_events = IF @ = NaN THEN 0 ELSE @] ]

\* Line 100: inner merge with the movements on (month, Location): one row per
\* matching movement row, none when there is no match.
MergeMovements(res_df, movements_df) ==
  LET Joined(r) ==
        LET Match(m) == m.month = r.month /\ m.Location = r.Location
            hits     == SelectSeq(movements_df, Match)
        IN  [ h \in 1..Len(hits) |->
                [ month |-> r.month, Event_Type |-> r.Event_Type,
                  Location |-> r.Location, n_events |-> r.n_events,
                  datetime |-> hits[h].datetime,
                  n_movements |-> hits[h].n_movements ] ]
  IN  Concat([i \in 1..Len(res_df) |-> Joined(res_df[i])])

\* Line 101: event_rate = n_events / (n_movements / 1000)
WithRate(res_df) ==
  [ i \in 1..Len(res_df) |->
      [ month |-> res_df[i].month, Event_Type |-> res_df[i].Event_Type,
        Location |-> res_df[i].Location, n_events |-> res_df[i].n_events,
        datetime |-> res_df[i].datetime, n_movements |-> res_df[i].n_movements,
        event_rate |-> EventRate(res_df[i].n_events, res_df[i].n_movements) ] ]

\* All Cities rows whose rate is left as the groupby's sum of the city rates.
AllCitiesRowsSummedRate(res_df) ==
  LET Key(r) == << r.month, r.Event_Type >>
      keys   == Unique([i \in 1..Len(res_df) |-> Key(res_df[i])])
  IN  [ k \in 1..Len(keys) |->
          LET InGroup(r) == Key(r) = keys[k]
              grp        == SelectSeq(res_df, InGroup)
          IN  [ month       |-> keys[k][1],
                Event_Type  |-> keys[k][2],
                Location    |-> AllCities,
                n_events    |-> SumInts([i \in 1..Len(grp) |-> grp[i].n_events]),
                datetime    |-> NaT,
                n_movements |-> SumInts([i \in 1..Len(grp) |-> grp[i].n_movements]),
                event_rate  |-> SumRates([i \in 1..Len(grp) |-> grp[i].event_rate]) ] ]

\* Lines 104-106: groupby([month, Event_Type]).sum(), the rate recomputed
\* from the summed columns, Location = 'All Cities'.
AllCitiesRows(res_df) ==
  LET Key(r) == << r.month, r.Event_Type >>
      keys   == Unique([i \in 1..Len(res_df) |-> Key(res_df[i])])
  IN  [ k \in 1..Len(keys) |->
          LET InGroup(r) == Key(r) = keys[k]
              grp        == SelectSeq(res_df, InGroup)
              n_events   == SumInts([i \in 1..Len(grp) |-> grp[i].n_events])
              n_movs     == SumInts([i \in 1..Len(grp) |-> grp[i].n_movements])
          IN  [ month       |-> keys[k][1],
                Event_Type  |-> keys[k][2],
                Location    |-> AllCities,
                n_events    |-> n_events,
                datetime    |-> NaT,
                n_movements |-> n_movs,
                event_rate  |-> EventRate(n_events, n_movs) ] ]

\* All Types rows that keep the groupby's summed n_movements.
AllTypesRowsSummedMovements(res_df) ==
  LET Key(r) == << r.month, r.Location >>
      keys   == Unique([i \in 1..Len(res_df) |-> Key(res_df[i])])
  IN  [ k \in 1..Len(keys) |->
          LET InGroup(r) == Key(r) = keys[k]
              grp        == SelectSeq(res_df, InGroup)
          IN  [ month       |-> keys[k][1],
                Location    |-> keys[k][2],
                n_events    |-> SumInts([i \in 1..Len(grp) |-> grp[i].n_events]),
                event_rate  |-> SumRates([i \in 1..Len(grp) |-> grp[i].event_rate]),
                Event_Type  |-> AllTypes,
                datetime    |-> NaT,
                n_movements |-> SumInts([i \in 1..Len(grp) |-> grp[i].n_movements]) ] ]

\* Lines 112-118: groupby([month, Location]).sum() gives n_events and the
\* summed event_rate; its n_movements is dropped and replaced by the
\* group's max n_movements.
AllTypesRows(res_df) ==
  LET Key(r) == << r.month, r.Location >>
      keys   == Unique([i \in 1..Len(res_df) |-> Key(res_df[i])])
  IN  [ k \in 1..Len(keys) |->
          LET InGroup(r) == Key(r) = keys[k]
              grp        == SelectSeq(res_df, InGroup)
          IN  [ month       |-> keys[k][1],
                Location    |-> keys[k][2],
                n_events    |-> SumInts([i \in 1..Len(grp) |-> grp[i].n_events]),
                event_rate  |-> SumRates([i \in 1..Len(grp) |-> grp[i].event_rate]),
                Event_Type  |-> AllTypes,
                datetime    |-> NaT,
                n_movements |-> MaxInts([i \in 1..Len(grp) |-> grp[i].n_movements]) ] ]

\* Line 123: sort_values('month').  Rows of one month keep their relative
\* order here; pandas' default sort leaves that order unspecified.
PeriodOrd(p) == p[1] * MonthsPerYear + p[2]

RECURSIVE SortByMonth(_)
SortByMonth(df) ==
  IF df = << >> THEN << >>
  ELSE LET lo == CHOOSE p \in { df[i].month : i \in 1..Len(df) } :
                   \A i \in 1..Len(df) : PeriodOrd(p) <= PeriodOrd(df[i].month)
           First(r) == r.month = lo
           Rest(r)  == r.month # lo
       IN  SelectSeq(df, First) \o SortByMonth(SelectSeq(df, Rest))

\* Lines 124-125: month.dt.strftime('%B') and drop('datetime').
Published(df) ==
  [ i \in 1..Len(df) |->
      [ month       |-> MonthName[df[i].month[2]],
        Event_Type  |-> df[i].Event_Type,
        Location    |-> df[i].Location,
        n_events    |-> df[i].n_events,
        n_movements |-> df[i].n_movements,
        event_rate  |-> df[i].event_rate ] ]

get_combined_df(movements_df, events_df, blank_df) ==
  LET counts    == EventCounts(events_df)
      merged    == MergeCounts(blank_df, counts)
      res_df    == WithRate(MergeMovements(merged, movements_df))
      all_df    == AllCitiesRows(res_df)
      with_all  == res_df \o all_df
      all_types == AllTypesRows(with_all)
  IN  Published(SortByMonth(all_types \o with_all))

\* ----------------------------------------------------------- the selected subset
\* Line 138: the Loss of Separation events.
selected_los(df) ==
  LET Los(r) == r.Event_Type = "Loss of Separation"
  IN  SelectSeq(df, Los)

\* Facility Issue events at Red City in any month.
selected_fac_any_month(df) ==
  LET Fac(r) == r.Location = "Red City" /\ r.Event_Type = "Facility Issue"
  IN  SelectSeq(df, Fac)

\* Line 139: the Facility Issue events at Red City in the month '2022-05'
\* (the string is compared as the Period it names).
selected_fac(df) ==
  LET Fac(r) == /\ r.Location = "Red City"
                /\ r.month = << 2022, 5 >>
                /\ r.Event_Type = "Facility Issue"
  IN  SelectSeq(df, Fac)

\* A file that has not been written in this run.
NotWritten == [written |-> FALSE, content |-> << >>]

\* pickle.dump(df, file) into a file opened "wb"
Dumped(df) == [written |-> TRUE, content |-> df]

\* ------------------------------------------------------------------ the script
VARIABLES
  pc,            \* the statement of __main__ that runs next
  events_csv,    \* data/Reported_Events.csv
  movement_csvs, \* the four movement files, tagged and concatenated
  events_df,     \* line 131
  movements_df,  \* line 132
  event_types,   \* line 134
  locations,     \* line 135
  blank_df,      \* the argument get_blank_df(event_types, locations) of line 136
  processed_df,  \* line 136
  selected_df,   \* line 140
  processed_pkl, \* data/processed_data.pkl
  selected_pkl   \* data/selected_data.pkl

\* The state of one dashboard session (app.py).
VARIABLES
  secret,        \* st.secrets["password"]
  session_state, \* st.session_state: a function on the keys it holds
  widget,        \* whether the last run rendered the password input
  app_pc,        \* "off", "run" (a script run is due) or "idle"
  returned,      \* what check_password returned in the last run
  page,          \* what the last run rendered
  plot_orders,   \* the result of get_plot_orders in the last run
  history        \* the comparisons password_entered has made in this session

\* The snapshot files and the subset written to one of them.
outputs == << selected_df, processed_pkl, selected_pkl >>

script == << pc, events_csv, movement_csvs, events_df, movements_df, event_types,
             locations, blank_df, processed_df, selected_df >>

session == << secret, session_state, widget, app_pc, returned, page, plot_orders,
              history >>

vars == << script, processed_pkl, selected_pkl, session >>

\* No dashboard session is running.
NoSession ==
  /\ secret = ""
  /\ session_state = << >>
  /\ widget = FALSE
  /\ app_pc = "off"
  /\ returned = "not run"
  /\ page = "none"
  /\ plot_orders = << >>
  /\ history = [last |-> "none", mismatched |-> FALSE]

Init ==
  /\ pc = "get_events_data"
  /\ events_csv \in RawEventFiles
  /\ movement_csvs \in RawMovementFiles
  /\ events_df = << >>
  /\ movements_df = << >>
  /\ event_types = << >>
  /\ locations = << >>
  /\ blank_df = << >>
  /\ processed_df = << >>
  /\ selected_df = << >>
  /\ processed_pkl = NotWritten
  /\ selected_pkl = NotWritten
  /\ NoSession

\* Line 131; the exception of line 57 ends the script.
GetEventsData ==
  /\ pc = "get_events_data"
  /\ IF get_events_data_raises(events_csv)
       THEN /\ pc' = "raised_in_get_events_data"
            /\ UNCHANGED events_df
       ELSE /\ pc' = "get_movements_data"
            /\ events_df' = get_events_data(events_csv, TargetYear)
  /\ UNCHANGED << events_csv, movement_csvs, movements_df, event_types, locations,
                  blank_df, processed_df, outputs, session >>

\* Line 132
GetMovementsData ==
  /\ pc = "get_movements_data"
  /\ movements_df' = get_movements_data(movement_csvs, TargetYear)
  /\ pc' = "get_blank_df"
  /\ UNCHANGED << events_csv, movement_csvs, events_df, event_types, locations,
                  blank_df, processed_df, outputs, session >>

\* Lines 134-136, up to the call of get_blank_df, which raises on an empty list.
GetBlankDf ==
  /\ pc = "get_blank_df"
  /\ event_types' = Unique([i \in 1..Len(events_df) |-> events_df[i].Event_Type])
  /\ locations' = Unique([i \in 1..Len(movements_df) |-> movements_df[i].Location])
  /\ IF get_blank_df_raises(event_types', locations')
       THEN /\ pc' = "raised"
            /\ UNCHANGED blank_df
       ELSE /\ pc' = "get_combined_df"
            /\ blank_df' = get_blank_df(event_types', locations', TargetYear)
  /\ UNCHANGED << events_csv, movement_csvs, events_df, movements_df, processed_df,
                  outputs, session >>

\* Line 136, the call of get_combined_df
GetCombinedDf ==
  /\ pc = "get_combined_df"
  /\ processed_df' = get_combined_df(movements_df, events_df, blank_df)
  /\ pc' = "select"
  /\ UNCHANGED << events_csv, movement_csvs, events_df, movements_df, event_types,
                  locations, blank_df, outputs, session >>

\* Lines 138-140
Select ==
  /\ pc = "select"
  /\ selected_df' = selected_los(events_df) \o selected_fac(events_df)
  /\ pc' = "dump_processed"
  /\ UNCHANGED << events_csv, movement_csvs, events_df, movements_df, event_types,
                  locations, blank_df, processed_df, processed_pkl, selected_pkl,
                  session >>

\* Lines 142-143
DumpProcessed ==
  /\ pc = "dump_processed"
  /\ processed_pkl' = Dumped(processed_df)
  /\ pc' = "dump_selected"
  /\ UNCHANGED << events_csv, movement_csvs, events_df, movements_df, event_types,
                  locations, blank_df, processed_df, selected_df, selected_pkl,
                  session >>

\* Lines 145-146
DumpSelected ==
  /\ pc = "dump_selected"
  /\ selected_pkl' = Dumped(selected_df)
  /\ pc' = "done"
  /\ UNCHANGED << events_csv, movement_csvs, events_df, movements_df, event_types,
                  locations, blank_df, processed_df, selected_df, processed_pkl,
                  session >>

Next ==
  \/ GetEventsData
  \/ GetMovementsData
  \/ GetBlankDf
  \/ GetCombinedDf
  \/ Select
  \/ DumpProcessed
  \/ DumpSelected

Spec == Init /\ [][Next]_vars

\* ---------------------------------------------------------------- the dashboard
\* The secrets a deployment may configure.
Secrets == {"s3cret", "hunter2"}

\* What a visitor may leave in the password box.
Passwords == {"", "s3cret", "hunter2"}

\* d[key] = value
SetItem(d, key, value) ==
  [k \in DOMAIN d \cup {key} |-> IF k = key THEN value ELSE d[k]]

\* del d[key]
DelItem(d, key) == [k \in DOMAIN d \ {key} |-> d[k]]

\* A session state without a key.
EmptyState == [k \in {} |-> ""]

\* A callback that accepts whatever was typed.
password_entered_unchecked(state, configured) ==
  DelItem(SetItem(state, "password_correct", TRUE), "password")

\* Lines 489-495: the on_change callback of the password input.
password_entered(state, configured) ==
  IF state["password"] = configured
    THEN DelItem(SetItem(state, "password_correct", TRUE), "password")
    ELSE SetItem(state, "password_correct", FALSE)

\* A gate that keeps the password input on the page.
text_input_always_rendered(state) == TRUE

\* Lines 497-510: check_password renders the password input in its first two
\* branches and not in the third.
text_input_rendered(state) ==
  IF "password_correct" \notin DOMAIN state
    THEN TRUE
    ELSE IF ~state["password_correct"] THEN TRUE ELSE FALSE

\* Lines 497-514: the value check_password returns.
check_password(state) ==
  IF "password_correct" \notin DOMAIN state
    THEN FALSE
    ELSE IF ~state["password_correct"] THEN FALSE ELSE TRUE

\* Lines 505-510: st.error is called in the second branch only.
error_rendered(state) ==
  "password_correct" \in DOMAIN state /\ ~state["password_correct"]

\* Line 46
always_show == << "All Types", "Loss of Separation", "Runway Incursion" >>

\* The number of other types shown by default, the slice of line 50.
MaxOthersShown == 5

\* The event types of the plotted tables, in the order sorted() gives them.
PlotTypes ==
  << "All Types", "Animal Strike", "Facility Issue", "Go Around", "Laser",
     "Loss of Separation", "Malfunction of Aircraft System", "Runway Incursion",
     "Taxiway Incursion" >>

\* Rate a sorts before rate b in descending order (NaN sorts last).
RateAbove(a, b) ==
  /\ a # NaNRate
  /\ \/ b = NaNRate
     \/ a = Inf /\ b # Inf
     \/ IsFinite(a) /\ IsFinite(b) /\ a.num * b.den > b.num * a.den

\* Line 47: df.sort_values("event_rate", ascending=False), rows of equal rate
\* in the order they have in df.
sort_values_descending(df) ==
  LET Rank(i) == Cardinality({ j \in 1..Len(df) :
                     \/ RateAbove(df[j].event_rate, df[i].event_rate)
                     \/ ~RateAbove(df[i].event_rate, df[j].event_rate) /\ j < i }) + 1
  IN  [ k \in 1..Len(df) |-> df[CHOOSE i \in 1..Len(df) : Rank(i) = k] ]

\* Line 50: the slice [:5]
TopOthers(others) ==
  SubSeq(others, 1, IF Len(others) < MaxOthersShown THEN Len(others) ELSE MaxOthersShown)

\* Lines 46-58
get_plot_orders(df) ==
  LET sorted_df  == sort_values_descending(df)
      all_types  == Unique([i \in 1..Len(sorted_df) |-> sorted_df[i].Event_Type])
      Other(x)   == x \notin Range(always_show)
      Present(x) == x \in Range(all_types)
      OtherPresent(x) == Other(x) /\ Present(x)
      to_show    == TopOthers(SelectSeq(all_types, Other))
  IN  [ all_types |-> always_show \o SelectSeq(PlotTypes, OtherPresent),
        to_show   |-> SelectSeq(always_show, Present) \o to_show ]

\* Lines 23-31: pickle.load of the snapshot
get_df(file) == file.content

\* Line 75: df[df.Location == city]
FilterCity(df, city) ==
  LET Here(r) == r.Location = city
  IN  SelectSeq(df, Here)

\* A row of the processed table, 1000 movements in the month.
PlotRow(month, type, city, n_events) ==
  [ month |-> month, Event_Type |-> type, Location |-> city,
    n_events |-> n_events, n_movements |-> PerThousand,
    event_rate |-> EventRate(n_events, PerThousand) ]

\* The processed tables the dashboard is run on: for each set of event types
\* an "All Cities" row for May and one for June, with rates that differ from
\* type to type (profile 1) or repeat among the types (profile 2).
PlotTables ==
  { LET Present(k) == PlotTypes[k] \in S
        ks    == SelectSeq([k \in 1..Len(PlotTypes) |-> k], Present)
        n     == Len(PlotTypes)
        may   == [i \in 1..Len(ks) |->
                    PlotRow("May", PlotTypes[ks[i]], AllCities,
                            IF profile = 1 THEN ks[i] ELSE (ks[i] % 3) + 1)]
        june  == [i \in 1..Len(ks) |->
                    PlotRow("June", PlotTypes[ks[i]], AllCities,
                            IF profile = 1 THEN 0 ELSE n + 1 - ks[i])]
    IN  may \o june
    : S \in SUBSET Range(PlotTypes), profile \in 1..2 }

\* A session starts on a machine where the script has written its snapshots.
InitApp ==
  /\ pc = "done"
  /\ events_csv = << >>
  /\ movement_csvs = << >>
  /\ events_df = << >>
  /\ movements_df = << >>
  /\ event_types = << >>
  /\ locations = << >>
  /\ blank_df = << >>
  /\ processed_df = << >>
  /\ selected_df = << >>
  /\ processed_pkl \in { Dumped(df) : df \in PlotTables }
  /\ selected_pkl = Dumped(<< >>)
  /\ secret \in Secrets
  /\ session_state = EmptyState
  /\ widget = FALSE
  /\ app_pc = "run"
  /\ returned = "not run"
  /\ page = "none"
  /\ plot_orders = << >>
  /\ history = [last |-> "none", mismatched |-> FALSE]

\* One run of the script: main (lines 155-165) calls check_password and, when
\* it returns True, loads the table and builds the plots (lines 186, 75-78).
\* A rendered text_input registers its key with the empty string.
Run ==
  /\ app_pc = "run"
  /\ returned' = IF check_password(session_state) THEN "True" ELSE "False"
  /\ widget' = text_input_rendered(session_state)
  /\ session_state' = IF widget' /\ "password" \notin DOMAIN session_state
                        THEN SetItem(session_state, "password", "")
                        ELSE session_state
  /\ page' = IF check_password(session_state) THEN "dashboard"
             ELSE IF error_rendered(session_state) THEN "password form with error"
             ELSE "password form"
  /\ plot_orders' = IF check_password(session_state)
                      THEN get_plot_orders(FilterCity(get_df(processed_pkl), AllCities))
                      ELSE << >>
  /\ app_pc' = "idle"
  /\ UNCHANGED << script, processed_pkl, selected_pkl, secret, history >>

\* The visitor changes the password box to pw: Streamlit stores the value
\* under the widget's key, calls password_entered and schedules a rerun.
PasswordEntered(pw) ==
  /\ app_pc = "idle"
  /\ widget
  /\ pw # session_state["password"]
  /\ session_state' = password_entered(SetItem(session_state, "password", pw), secret)
  /\ history' = [last       |-> IF pw = secret THEN "equal" ELSE "different",
                 mismatched |-> history.mismatched \/ pw # secret]
  /\ app_pc' = "run"
  /\ UNCHANGED << script, processed_pkl, selected_pkl, secret, widget, returned, page,
                  plot_orders >>

\* The visitor uses a widget of the dashboard, which schedules a rerun.
Interact ==
  /\ app_pc = "idle"
  /\ page = "dashboard"
  /\ app_pc' = "run"
  /\ UNCHANGED << script, processed_pkl, selected_pkl, secret, session_state, widget,
                  returned, page, plot_orders, history >>

NextApp ==
  \/ Run
  \/ \E pw \in Passwords : PasswordEntered(pw)
  \/ Interact

SpecApp == InitApp /\ [][NextApp]_vars

\* ------------------------------------------------------------------ properties
\* The script has computed processed_df.
Combined == pc = "select"

\* get_blank_df has been called.
GridCalled == pc \in {"raised", "get_combined_df", "select"}

RealType(r) == r.Event_Type # AllTypes

RealLocation(r) == r.Location # AllCities

\* The raw event row e is dated in month m of the target year.
InTargetMonth(e, m) ==
  ParseYear2(e.Event_Date[1]) = TargetYear /\ e.Event_Date[2] = m

\* The raw movement row v is dated in month m of the target year.
MovementInTargetMonth(v, m) == v.datetime[1] = TargetYear /\ v.datetime[2] = m

\* The number of the month called name.
MonthOf(name) == CHOOSE m \in 1..MonthsPerYear : MonthName[m] = name

\* The rows of processed_df with the given key.
RowsAt(name, type, loc) ==
  LET At(r) == r.month = name /\ r.Event_Type = type /\ r.Location = loc
  IN  SelectSeq(processed_df, At)

\* The rows of processed_df for a month and a location with a real event type.
RealTypeRowsAt(name, loc) ==
  LET At(r) == r.month = name /\ r.Location = loc /\ RealType(r)
  IN  SelectSeq(processed_df, At)

\* The rows of processed_df for a month and a type at a real location.
RealLocationRowsAt(name, type) ==
  LET At(r) == r.month = name /\ r.Event_Type = type /\ RealLocation(r)
  IN  SelectSeq(processed_df, At)

\* rate = n_events / (n_movements / 1000), for n_movements > 0
RateIs(rate, n_events, n_movements) ==
  /\ IsFinite(rate)
  /\ rate.num * n_movements = PerThousand * n_events * rate.den

\* C1: the output holds exactly one row for every combination of the 12
\* months, the observed event types and "All Types", the observed locations
\* and "All Cities", and so 12 x (types + 1) x (locations + 1) rows.
C1_OneRowPerCombination ==
  Combined =>
    /\ \A m \in 1..MonthsPerYear :
         \A t \in Range(event_types) \cup {AllTypes} :
           \A l \in Range(locations) \cup {AllCities} :
             Len(RowsAt(MonthName[m], t, l)) = 1
    /\ Len(processed_df) =
         MonthsPerYear * (Len(event_types) + 1) * (Len(locations) + 1)

\* C2: every output row with a real event type and a real location counts
\* the raw event records of the target year with its type, month and
\* location, and no others.
C2_CountsTargetYearEvents ==
  Combined =>
    \A i \in 1..Len(processed_df) :
      LET r == processed_df[i]
          Counted(e) == /\ InTargetMonth(e, MonthOf(r.month))
                        /\ e.Event_Type = r.Event_Type
                        /\ e.Location = r.Location
      IN  (RealType(r) /\ RealLocation(r)) =>
            r.n_events = Len(SelectSeq(events_csv, Counted))

\* C2 witness: a row counts one event although a second event of the same
\* type, location and calendar month is on file, dated outside the target year.
C2_Witness ==
  /\ Combined
  /\ \E i \in 1..Len(processed_df) :
       LET r == processed_df[i]
       IN  /\ RealType(r) /\ RealLocation(r) /\ r.n_events = 1
           /\ \E k \in 1..Len(events_csv) :
                /\ ParseYear2(events_csv[k].Event_Date[1]) # TargetYear
                /\ MonthName[events_csv[k].Event_Date[2]] = r.month
                /\ events_csv[k].Event_Type = r.Event_Type
                /\ events_csv[k].Location = r.Location

\* C3: every grid combination without an event record has a row in the
\* output, with n_events = 0 and, when n_movements > 0, event_rate = 0.
C3_ZeroRowForEveryEmptyCombination ==
  Combined =>
    \A m \in 1..MonthsPerYear : \A t \in Range(event_types) : \A l \in Range(locations) :
      LET Recorded(e) == InTargetMonth(e, m) /\ e.Event_Type = t /\ e.Location = l
          rows        == RowsAt(MonthName[m], t, l)
      IN  Len(SelectSeq(events_csv, Recorded)) = 0 =>
            /\ rows # << >>
            /\ \A j \in 1..Len(rows) :
                 /\ rows[j].n_events = 0
                 /\ rows[j].n_movements > 0 => rows[j].event_rate = Frac(0, 1)

\* C4: every output row with a real event type, at a real location or at
\* "All Cities", with n_movements > 0 has
\* event_rate = n_events / (n_movements / 1000).
C4_RatePerThousandMovements ==
  Combined =>
    \A i \in 1..Len(processed_df) :
      LET r == processed_df[i]
      IN  (RealType(r) /\ r.n_movements > 0) =>
            RateIs(r.event_rate, r.n_events, r.n_movements)

\* C4 witness: a row with 1,000 movements and 2 events has rate 2, and an
\* "All Cities" row with movements has a rate.
C4_Witness ==
  /\ Combined
  /\ \E i \in 1..Len(processed_df) :
       LET r == processed_df[i]
       IN  /\ RealType(r) /\ RealLocation(r)
           /\ r.n_movements = 1000 /\ r.n_events = 2 /\ r.event_rate = Frac(2, 1)
  /\ \E i \in 1..Len(processed_df) :
       LET r == processed_df[i]
       IN  RealType(r) /\ ~RealLocation(r) /\ r.n_movements > 0 /\ r.n_events > 0

\* C5: the "All Cities" row of a month and a real event type has the sums
\* of n_events and of n_movements over the real-location rows of that month
\* and type, and the rate recomputed from the two sums.
C5_AllCitiesSums ==
  Combined =>
    \A i \in 1..Len(processed_df) :
      LET r   == processed_df[i]
          grp == RealLocationRowsAt(r.month, r.Event_Type)
          n_e == SumInts([j \in 1..Len(grp) |-> grp[j].n_events])
          n_m == SumInts([j \in 1..Len(grp) |-> grp[j].n_movements])
      IN  (RealType(r) /\ RealLocation(r)) =>
            LET all == RowsAt(r.month, r.Event_Type, AllCities)
            IN  /\ Len(all) = 1
                /\ all[1].n_events = n_e
                /\ all[1].n_movements = n_m
                /\ all[1].event_rate = EventRate(n_e, n_m)

\* C5 witness: two cities with 1,000 and 2,000 movements and one event
\* between them: the city rates are 1 and 0 (sum 1, average 1/2), the
\* "All Cities" rate is 1/3.
C5_Witness ==
  /\ Combined
  /\ \E i \in 1..Len(processed_df) :
       LET r   == processed_df[i]
           grp == RealLocationRowsAt(r.month, r.Event_Type)
       IN  /\ RealType(r) /\ ~RealLocation(r)
           /\ r.n_events = 1 /\ r.n_movements = 3000 /\ r.event_rate = Frac(1, 3)
           /\ Len(grp) = 2
           /\ { grp[1].event_rate, grp[2].event_rate } = { Frac(1, 1), Frac(0, 1) }

C7_AllTypesRate ==
  Combined =>
    \A i \in 1..Len(processed_df) :
      LET r == processed_df[i]
      IN  (~RealType(r) /\ r.n_movements > 0) =>
            RateIs(r.event_rate, r.n_events, r.n_movements)

\* C8: the script does not produce its table from a grid row whose month
\* and location have no movement record.
C8_MissingMovementsRejected ==
  Combined =>
    \A i \in 1..Len(blank_df) :
      \E k \in 1..Len(movements_df) :
        /\ movements_df[k].month = blank_df[i].month
        /\ movements_df[k].Location = blank_df[i].Location

\* C9: movement rows of one location and month are summed: every output
\* row of a real type and location carries the sum of the target-year
\* movement rows of its location and month, and no output row is repeated.
C9_MovementRowsSummed ==
  Combined =>
    \A i \in 1..Len(processed_df) :
      LET r    == processed_df[i]
          Here(v) == /\ MovementInTargetMonth(v, MonthOf(r.month))
                     /\ v.Location = r.Location
          recs == SelectSeq(movement_csvs, Here)
      IN  (RealType(r) /\ RealLocation(r)) =>
            /\ r.n_movements = SumInts([j \in 1..Len(recs) |-> recs[j].n_movements])
            /\ Len(RowsAt(r.month, r.Event_Type, r.Location)) = 1

\* The grid holds exactly one row for each combination of the 12 months of
\* the target year, the listed event types and the listed locations.
GridExact ==
  /\ \A m \in 1..MonthsPerYear : \A t \in Range(event_types) : \A l \in Range(locations) :
       LET At(b) == b.month = << TargetYear, m >> /\ b.Event_Type = t /\ b.Location = l
       IN  Len(SelectSeq(blank_df, At)) = 1
  /\ Len(blank_df) = MonthsPerYear * Len(event_types) * Len(locations)

\* C10 as stated: for a non-empty list of event types and any list of
\* locations, get_blank_df returns exactly one row per combination.
C10_GridForAnyLocations ==
  (GridCalled /\ event_types # << >>) => (pc # "raised" /\ GridExact)

\* C10: for a non-empty list of distinct event types and a non-empty list
\* of distinct locations, get_blank_df returns exactly one row per
\* combination of month, event type and location: 12 x types x locations rows.
C10_GridForNonEmptyLists ==
  (GridCalled /\ event_types # << >> /\ locations # << >>) =>
    (pc # "raised" /\ GridExact)

\* C10 witness: the grid of two event types and two locations, 48 rows.
C10_Witness ==
  /\ pc = "get_combined_df"
  /\ Len(event_types) = 2
  /\ Len(locations) = 2
  /\ Len(blank_df) = 48

\* Some date of the raw events file does not match the format.
HasUnparseableDate ==
  \E i \in 1..Len(events_csv) : ~Parseable(events_csv[i].Event_Date)

Wanted(e) ==
  /\ ParseYear2(e.Event_Date[1]) = TargetYear
  /\ \/ e.Event_Type = "Loss of Separation"
     \/ /\ e.Event_Type = "Facility Issue"
        /\ e.Location = "Red City"
        /\ e.Event_Date[2] = 5

\* The rows of the written subset that carry the record e.
SelectedCopies(e) ==
  LET Same(r) == /\ r.Event_ID = e.Event_ID
                 /\ r.Event_Type = e.Event_Type
                 /\ r.Location = e.Location
                 /\ r.month = << TargetYear, e.Event_Date[2] >>
  IN  SelectSeq(selected_pkl.content, Same)

\* C12: the written subset holds exactly the target-year records that are
\* a "Loss of Separation" at any location or a "Facility Issue" at Red City
\* in May 2022, each of them once, and nothing else.
C12_SelectedSubset ==
  selected_pkl.written =>
    /\ \A i \in 1..Len(events_csv) :
         Len(SelectedCopies(events_csv[i])) = IF Wanted(events_csv[i]) THEN 1 ELSE 0
    /\ Len(selected_pkl.content) = Len(SelectSeq(events_csv, Wanted))

\* C12 witness: the subset is written with a Red City facility issue of May
\* 2022 in it, while a Red City facility issue of March 2022 is left out.
C12_Witness ==
  /\ selected_pkl.written
  /\ \E i, j \in 1..Len(events_csv) :
       LET e == events_csv[i]
           f == events_csv[j]
       IN  /\ e.Event_Type = "Facility Issue" /\ e.Location = "Red City"
           /\ e.Event_Date = << 22, 5 >>
           /\ Len(SelectedCopies(e)) = 1
           /\ f.Event_Type = "Facility Issue" /\ f.Location = "Red City"
           /\ f.Event_Date = << 22, 3 >>
           /\ Len(SelectedCopies(f)) = 0

\* Every listed location has exactly one movement row in every month.
OneMovementRowEach ==
  \A l \in Range(locations) : \A m \in 1..MonthsPerYear :
    LET Here(v) == v.Location = l /\ v.month = << TargetYear, m >>
    IN  Len(SelectSeq(movements_df, Here)) = 1

\* The target-year raw events of month m at a location of the movement data.
ListedEvents(m) ==
  LET Listed(e) == InTargetMonth(e, m) /\ e.Location \in Range(locations)
  IN  SelectSeq(events_csv, Listed)

\* C16: when every listed location has exactly one movement row per month,
\* the (All Types, All Cities) row of a month counts the target-year events
\* of that month at the listed locations, which are all of them when every
\* event location is listed; an event at an unlisted location appears in no
\* output row and in no count, and the script does not fail on it.
C16_EventsConserved ==
  Combined =>
    /\ OneMovementRowEach =>
         \A m \in 1..MonthsPerYear :
           LET rows == RowsAt(MonthName[m], AllTypes, AllCities)
           IN  /\ Len(rows) = 1
               /\ rows[1].n_events = Len(ListedEvents(m))
    /\ \A i \in 1..Len(processed_df) :
         LET r == processed_df[i]
             Feeds(e) == /\ InTargetMonth(e, MonthOf(r.month))
                         /\ e.Location \in Range(locations)
                         /\ r.Event_Type \in {e.Event_Type, AllTypes}
                         /\ r.Location \in {e.Location, AllCities}
         IN  /\ r.Location \in Range(locations) \cup {AllCities}
             /\ (\A k \in 1..Len(events_csv) : ~Feeds(events_csv[k])) => r.n_events = 0

\* C16 witness: one listed location with a movement row in every month, and
\* a month with one event there and one event at an unlisted location: the
\* (All Types, All Cities) row counts one event of the two.
C16_Witness ==
  /\ Combined
  /\ OneMovementRowEach
  /\ \E m \in 1..MonthsPerYear :
       LET InMonth(e) == InTargetMonth(e, m)
           rows       == RowsAt(MonthName[m], AllTypes, AllCities)
       IN  /\ Len(SelectSeq(events_csv, InMonth)) = 2
           /\ Len(ListedEvents(m)) = 1
           /\ Len(rows) = 1
           /\ rows[1].n_events = 1

\* The last run opened the gate.
GateOpen == returned = "True"

\* C13: check_password returns True, and main renders the dashboard, only
\* after a submitted password compared equal to the secret; on the first run
\* and after a submission that did not match it returns False and nothing of
\* the dashboard is rendered.
C13_GateOpensOnlyOnMatch ==
  /\ GateOpen => history.last = "equal"
  /\ (page = "dashboard" \/ plot_orders # << >>) => GateOpen
  /\ (app_pc = "idle" /\ history.last # "equal") =>
       /\ returned = "False"
       /\ page \in {"password form", "password form with error"}
       /\ plot_orders = << >>

\* C13 witness: the dashboard is rendered after a first submission that
\* matched the secret.
C13_Witness ==
  /\ GateOpen
  /\ page = "dashboard"
  /\ plot_orders # << >>
  /\ history = [last |-> "equal", mismatched |-> FALSE]

\* The table get_plot_orders was called on in the last run.
Plotted == FilterCity(get_df(processed_pkl), AllCities)

\* The highest event rate of the plotted rows of type t is at least that of type u.
TopRateAtLeast(t, u) ==
  \E i \in 1..Len(Plotted) :
    /\ Plotted[i].Event_Type = t
    /\ \A j \in 1..Len(Plotted) :
         Plotted[j].Event_Type = u =>
           ~RateAbove(Plotted[j].event_rate, Plotted[i].event_rate)

\* to_show lists, each once, the always-shown types that are present and
\* other present types of which none has a lower top rate than a type left out.
ToShowComposition ==
  LET to_show == plot_orders.to_show
      present == { Plotted[i].Event_Type : i \in 1..Len(Plotted) }
      shown   == Range(to_show)
      always  == Range(always_show)
  IN  /\ Cardinality(shown) = Len(to_show)
      /\ shown \subseteq present
      /\ shown \cap always = present \cap always
      /\ \A t \in shown \ always : \A u \in (present \ always) \ shown :
           TopRateAtLeast(t, u)

\* C14: get_plot_orders returns a default list of at most 7 event types:
\* the always-shown types that are present plus the other types with the
\* highest event rates.
C14_AtMostSeven ==
  page = "dashboard" => (ToShowComposition /\ Len(plot_orders.to_show) <= 7)

\* The session state records a submission that matched.
Correct(state) == "password_correct" \in DOMAIN state /\ state["password_correct"]

\* C15: once check_password has returned True it returns True in every
\* later run of the session; while the gate is open the password input is
\* not rendered and the submitted password is not in the session state;
\* after a submission that did not match the gate is closed and the input
\* is rendered again.
C15_GateStaysOpen ==
  /\ [][GateOpen => GateOpen']_vars
  /\ [](GateOpen => (~widget /\ Correct(session_state)))
  /\ [](Correct(session_state) => "password" \notin DOMAIN session_state)
  /\ []((app_pc = "idle" /\ history.last = "different") => (~GateOpen /\ widget))

\* C15 witness: the gate has stayed open over a rerun, in a session whose
\* first submission did not match.
C15_Witness ==
  /\ GateOpen
  /\ app_pc = "run"
  /\ history = [last |-> "equal", mismatched |-> TRUE]
  /\ "password" \notin DOMAIN session_state

====
